---- MODULE Spec2Model ----
(***************************************************************************)
(* open-spend: the JSON-file store (src/src/storage.js), its query layer,  *)
(* the bank-link handler (server.js, src/unnamed/part_001), the /sync      *)
(* handlers (bot.js, src/unnamed/part_002; src/src/tools.js) and the       *)
(* Plaid mapping (plaid.js, src/unnamed/part_003).                         *)
(*                                                                         *)
(* Conventions.  A JS string is a TLA+ string.  A JS number of money is an *)
(* integer number of cents (-45.67 is -4567), so sums are exact decimal    *)
(* sums.  A JS object used as a map is a function whose DOMAIN is the set  *)
(* of keys present.  A value that may be undefined/null is a sequence of   *)
(* length 0 (undefined) or 1 (the value).  The data file is a sequence of  *)
(* length 0 (no file yet) or 1 (the parsed JSON content); the values kept  *)
(* in it are strings, integers and arrays/objects of those, which          *)
(* JSON.stringify/JSON.parse reproduce unchanged, and file-system errors   *)
(* are not modelled.                                                       *)
(***************************************************************************)
EXTENDS Integers, Sequences, FiniteSets, TLC

VARIABLES
    file,               \* data/connections.json (storage.js:11)
    MOCK_TRANSACTIONS,  \* the module-level array of storage.js:43
    MOCK_ACCOUNTS,      \* the module-level array of storage.js:66
    requests,           \* the handler invocations (in SpecShared: the storage writes),
                        \* in start order
    response,           \* the answer a handler sent last
    query,              \* the query operation being called and what it returns
    appended            \* per user, the messages given to appendChatHistory since
                        \* the user's history was last absent

vars == <<file, MOCK_TRANSACTIONS, MOCK_ACCOUNTS, requests, response, query, appended>>

-----------------------------------------------------------------------------
(* Bounds of the model *)

\* handler invocations (links and syncs) started in one behaviour
MaxRequests == 2
\* length of a transaction list the bank returns
MaxTxns == 3

\* the longest account list drawn for a stored connection
MaxAccounts == 3

-----------------------------------------------------------------------------
(* JS strings *)

UpperChars == "ABCDEFGHIJKLMNOPQRSTUVWXYZ"
LowerChars == "abcdefghijklmnopqrstuvwxyz"
\* the characters that occur in dates, in UTF-16 code unit order
DateChars == "-0123456789"

charAt(s, i) == SubSeq(s, i, i)

indexIn(alphabet, c) ==
    IF \E i \in 1..Len(alphabet) : charAt(alphabet, i) = c
    THEN CHOOSE i \in 1..Len(alphabet) : charAt(alphabet, i) = c
    ELSE 0

charsOf(alphabet) == {charAt(alphabet, i) : i \in 1..Len(alphabet)}

LowerOf == [c \in charsOf(UpperChars) |-> charAt(LowerChars, indexIn(UpperChars, c))]
UpperOf == [c \in charsOf(LowerChars) |-> charAt(UpperChars, indexIn(LowerChars, c))]
CodeUnitOrder == [c \in charsOf(DateChars) |-> indexIn(DateChars, c)]

lowerChar(c) == IF c \in DOMAIN LowerOf THEN LowerOf[c] ELSE c

upperChar(c) == IF c \in DOMAIN UpperOf THEN UpperOf[c] ELSE c

RECURSIVE toLowerCase(_)
toLowerCase(s) ==
    IF s = "" THEN "" ELSE lowerChar(charAt(s, 1)) \o toLowerCase(SubSeq(s, 2, Len(s)))

RECURSIVE toUpperCase(_)
toUpperCase(s) ==
    IF s = "" THEN "" ELSE upperChar(charAt(s, 1)) \o toUpperCase(SubSeq(s, 2, Len(s)))

\* String.prototype.replace(/ /g, '_')
RECURSIVE replaceSpaces(_)
replaceSpaces(s) ==
    IF s = "" THEN ""
    ELSE (IF charAt(s, 1) = " " THEN "_" ELSE charAt(s, 1)) \o replaceSpaces(SubSeq(s, 2, Len(s)))

\* String.prototype.includes
includes(s, search) ==
    \E i \in 1..(Len(s) - Len(search) + 1) : SubSeq(s, i, i + Len(search) - 1) = search

\* a < b on strings: decided by the code units at the first place where the two
\* differ, a proper prefix coming first
strLess(a, b) ==
    LET n       == IF Len(a) < Len(b) THEN Len(a) ELSE Len(b)
        differ  == {i \in 1..n : charAt(a, i) # charAt(b, i)}
    IN  IF differ = {} THEN Len(a) < Len(b)
        ELSE LET k == CHOOSE i \in differ : \A j \in differ : i <= j
             IN  CodeUnitOrder[charAt(a, k)] < CodeUnitOrder[charAt(b, k)]

strLeq(a, b) == a = b \/ strLess(a, b)

\* a.localeCompare(b): on strings of digits and hyphens the collation order is
\* the code unit order
localeCompare(a, b) == IF a = b THEN 0 ELSE IF strLess(a, b) THEN -1 ELSE 1

\* Math.abs
abs(n) == IF n < 0 THEN -n ELSE n

\* a JS value used as a condition: null, undefined and "" are falsy
NULL == "<null>"
truthy(v) == v # NULL /\ v # ""

Some(v) == <<v>>
None == <<>>

-----------------------------------------------------------------------------
(* The canned data, storage.js:43-74 *)

Txn(id, date, amount, merchant, category, account) ==
    [id |-> id, date |-> date, amount |-> amount, merchant |-> merchant,
     category |-> category, account |-> account]

CannedTransactions == <<
    Txn("txn_001", "2026-01-02", -4567, "Whole Foods Market", "groceries", "Chase Checking"),
    Txn("txn_002", "2026-01-03", -1250, "Starbucks", "food", "Chase Checking"),
    Txn("txn_003", "2026-01-05", 350000, "Employer Direct Deposit", "income", "Chase Checking"),
    Txn("txn_004", "2026-01-06", -8999, "Amazon", "shopping", "Amex Platinum"),
    Txn("txn_005", "2026-01-07", -15000, "PG&E", "utilities", "Chase Checking"),
    Txn("txn_006", "2026-01-08", -3500, "Uber", "transport", "Amex Platinum"),
    Txn("txn_007", "2026-01-10", -7850, "Trader Joes", "groceries", "Chase Checking"),
    Txn("txn_008", "2026-01-12", -2500, "Netflix", "entertainment", "Amex Platinum"),
    Txn("txn_009", "2026-01-12", -1599, "Spotify", "entertainment", "Amex Platinum"),
    Txn("txn_010", "2026-01-15", -20000, "CVS Pharmacy", "health", "Chase Checking"),
    Txn("txn_011", "2026-01-18", -6500, "Chipotle", "food", "Amex Platinum"),
    Txn("txn_012", "2026-01-19", 350000, "Employer Direct Deposit", "income", "Chase Checking"),
    Txn("txn_013", "2026-01-20", -120000, "Rent Payment", "housing", "Chase Checking"),
    Txn("txn_014", "2026-01-22", -5500, "Shell Gas Station", "transport", "Chase Checking"),
    Txn("txn_015", "2026-01-24", -12500, "Target", "shopping", "Amex Platinum"),
    Txn("txn_016", "2026-01-25", -4200, "Grubhub", "food", "Amex Platinum"),
    Txn("txn_017", "2026-01-27", -9550, "Costco", "groceries", "Chase Checking"),
    Txn("txn_018", "2026-01-28", 50000, "Venmo Transfer", "transfer", "Chase Checking"),
    Txn("txn_019", "2026-01-29", -18000, "United Airlines", "travel", "Amex Platinum"),
    Txn("txn_020", "2026-01-30", -2800, "Lyft", "transport", "Amex Platinum") >>

Account(id, name, type, balance, institution) ==
    [id |-> id, name |-> name, type |-> type, balance |-> balance, institution |-> institution]

CannedAccounts == <<
    Account("acc_001", "Chase Checking", "checking", 425033, "Chase"),
    Account("acc_002", "Amex Platinum", "credit", -89248, "American Express") >>

CATEGORIES ==
    {"groceries", "food", "shopping", "transport", "utilities", "entertainment",
     "health", "housing", "travel", "income", "transfer", "other"}

-----------------------------------------------------------------------------
(* plaid.js (src/unnamed/part_003): what the bank returns, mapped to the   *)
(* internal records                                                        *)

categoryMap ==
    ("FOOD_AND_DRINK" :> "food") @@ ("GROCERIES" :> "groceries") @@
    ("TRANSPORTATION" :> "transport") @@ ("TRAVEL" :> "travel") @@
    ("ENTERTAINMENT" :> "entertainment") @@ ("SHOPPING" :> "shopping") @@
    ("HEALTH" :> "health") @@ ("UTILITIES" :> "utilities") @@
    ("HOUSING" :> "housing") @@ ("INCOME" :> "income") @@ ("TRANSFER" :> "transfer")

mapCategory(plaidCategory) ==
    IF ~truthy(plaidCategory) THEN "other"
    ELSE LET upperCategory == replaceSpaces(toUpperCase(plaidCategory))
         IN  IF upperCategory \in DOMAIN categoryMap THEN categoryMap[upperCategory] ELSE "other"

\* one element of response.data.transactions; "" stands for a null field
PlaidTxn(id, date, amount, merchant_name, name, pfc, legacy, account_id) ==
    [transaction_id |-> id, date |-> date, amount |-> amount, merchant_name |-> merchant_name,
     name |-> name, personal_finance_category |-> pfc, category |-> legacy,
     account_id |-> account_id]

\* the map callback of plaid.js getTransactions
mapPlaidTransaction(txn) ==
    Txn(txn.transaction_id,
        txn.date,
        -txn.amount,
        IF truthy(txn.merchant_name) THEN txn.merchant_name ELSE txn.name,
        mapCategory(IF truthy(txn.personal_finance_category)
                    THEN txn.personal_finance_category ELSE txn.category),
        txn.account_id)

plaidGetTransactions(data) == [i \in 1..Len(data) |-> mapPlaidTransaction(data[i])]

PlaidAccount(id, name, type, subtype, current, available, official_name) ==
    [account_id |-> id, name |-> name, type |-> type, subtype |-> subtype,
     current |-> current, available |-> available, official_name |-> official_name]

\* the map callback of plaid.js getAccounts
mapPlaidAccount(account) ==
    [id |-> account.account_id, name |-> account.name, type |-> account.type,
     subtype |-> account.subtype, balance |-> account.current,
     availableBalance |-> account.available,
     institution |-> IF truthy(account.official_name) THEN account.official_name
                     ELSE account.name]

plaidGetAccounts(data) == [i \in 1..Len(data) |-> mapPlaidAccount(data[i])]

-----------------------------------------------------------------------------
(* The environment: users, the bank's answers, the clock *)

Users == {"u1", "u2"}

NoneAppended == [u \in Users |-> <<>>]

\* what the bank may hold for an item, amounts in the bank's sign (debits positive):
\* a grocery purchase, a zero-amount card hold of the same day, a salary, an
\* outgoing transfer and a payroll clawback
BankGroceries == PlaidTxn("p1", "2026-02-03", 1250, "Safeway", "SAFEWAY #123", "GROCERIES", "", "chk-1")
BankHold      == PlaidTxn("p2", "2026-02-03", 0, "Uber", "UBER HOLD", "LOAN_PAYMENTS", "", "card-9")
BankSalary    == PlaidTxn("p3", "2026-02-10", -300000, "", "ACME Payroll", "INCOME", "", "chk-1")
BankTransfer  == PlaidTxn("p4", "2026-01-28", 5000, "", "Zelle to Sam", "", "Transfer", "chk-1")
BankClawback  == PlaidTxn("p5", "2026-02-10", 2000, "", "Payroll correction", "", "Income", "chk-1")

BankTransactions == {BankGroceries, BankHold, BankSalary, BankTransfer, BankClawback}

Range(q) == {q[i] : i \in DOMAIN q}

RECURSIVE SeqsUpTo(_, _)
\* the sequences of at most n distinct elements of S
SeqsUpTo(S, n) ==
    IF n = 0 THEN {<<>>}
    ELSE LET shorter == SeqsUpTo(S, n - 1)
             longest == {q \in shorter : Len(q) = n - 1}
         IN  shorter \cup
             {Append(p[1], p[2]) : p \in {r \in longest \X S : r[2] \notin Range(r[1])}}

-----------------------------------------------------------------------------
(* storage.js: the file and the records kept in it *)

\* obj[key] = value on a JS object
put(obj, key, value) == [k \in (DOMAIN obj) \cup {key} |-> IF k = key THEN value ELSE obj[k]]

\* obj[key]: the value, or undefined
get(obj, key) == IF key \in DOMAIN obj THEN Some(obj[key]) ELSE None

\* delete obj[key]
delete(obj, key) == [k \in (DOMAIN obj) \ {key} |-> obj[k]]

EmptyObject == <<>>

loadConnections(f) ==
    IF Len(f) = 1 THEN f[1]
    ELSE [connections |-> EmptyObject, transactionCache |-> EmptyObject]

saveConnections(data) == Some(data)

\* the file after saveUserConnection(userId, connection)
saveUserConnection(f, userId, connection) ==
    LET data == loadConnections(f)
    IN  saveConnections([data EXCEPT !.connections = put(data.connections, userId, connection)])

getUserConnection(f, userId) == get(loadConnections(f).connections, userId)

hasPlaidConnection(f, userId) == Len(getUserConnection(f, userId)) = 1

\* as cacheTransactions, but adding to the array already cached for the user
cacheTransactions_Merging(f, userId, transactions, at) ==
    LET data     == loadConnections(f)
        existing == IF userId \in DOMAIN data.transactionCache
                    THEN data.transactionCache[userId].transactions ELSE <<>>
    IN  saveConnections([data EXCEPT !.transactionCache =
            put(data.transactionCache, userId,
                [transactions |-> existing \o transactions, cachedAt |-> at])])

\* the file after cacheTransactions(userId, transactions) at time at
cacheTransactions(f, userId, transactions, at) ==
    LET data == loadConnections(f)
    IN  saveConnections([data EXCEPT !.transactionCache =
            put(data.transactionCache, userId,
                [transactions |-> transactions, cachedAt |-> at])])

\* as getCachedTransactions, but a user without a cache entry is given the entry
\* of a user who has one
getCachedTransactions_OfAnyUser(f, userId) ==
    LET cache == loadConnections(f).transactionCache
    IN  IF userId \in DOMAIN cache \/ DOMAIN cache = {} THEN get(cache, userId)
        ELSE Some(cache[CHOOSE u \in DOMAIN cache : TRUE])

\* storage.js:107-110
getCachedTransactions(f, userId) == get(loadConnections(f).transactionCache, userId)

\* data.chatHistory, {} when the key is missing (storage.js:119-121, 127-129)
chatHistoryOf(data) == IF "chatHistory" \in DOMAIN data THEN data.chatHistory ELSE EmptyObject

getChatHistory(f, userId) ==
    LET history == get(chatHistoryOf(loadConnections(f)), userId)
    IN  IF Len(history) = 1 THEN history[1] ELSE <<>>

HISTORY_LIMIT == 20

\* Array.prototype.slice(-n)
sliceLast(arr, n) == IF Len(arr) > n THEN SubSeq(arr, Len(arr) - n + 1, Len(arr)) ELSE arr

\* as appendChatHistory, but a full history keeps its first 20 messages
appendChatHistory_KeepsOldest(f, userId, role, content, at) ==
    LET data     == loadConnections(f)
        all      == chatHistoryOf(data)
        existing == IF userId \in DOMAIN all THEN all[userId] ELSE <<>>
        pushed   == Append(existing, [role |-> role, content |-> content, timestamp |-> at])
        kept     == IF Len(pushed) > HISTORY_LIMIT THEN SubSeq(pushed, 1, HISTORY_LIMIT) ELSE pushed
    IN  saveConnections([connections |-> data.connections,
                         transactionCache |-> data.transactionCache,
                         chatHistory |-> put(all, userId, kept)])

\* the file after appendChatHistory(userId, role, content) at time at
appendChatHistory(f, userId, role, content, at) ==
    LET data     == loadConnections(f)
        all      == chatHistoryOf(data)
        existing == IF userId \in DOMAIN all THEN all[userId] ELSE <<>>
        pushed   == Append(existing, [role |-> role, content |-> content, timestamp |-> at])
        kept     == IF Len(pushed) > HISTORY_LIMIT THEN sliceLast(pushed, HISTORY_LIMIT) ELSE pushed
    IN  saveConnections([connections |-> data.connections,
                         transactionCache |-> data.transactionCache,
                         chatHistory |-> put(all, userId, kept)])

\* the file after clearChatHistory(userId)
clearChatHistory(f, userId) ==
    LET data == loadConnections(f)
    IN  IF "chatHistory" \in DOMAIN data /\ userId \in DOMAIN data.chatHistory
        THEN saveConnections([data EXCEPT !.chatHistory = delete(data.chatHistory, userId)])
        ELSE f

-----------------------------------------------------------------------------
(* storage.js: the data access functions.  f is the file, mock the         *)
(* module-level canned array the call reads.                               *)

\* filters = {}: every criterion undefined
NoFilters ==
    [category |-> None, merchant |-> None, startDate |-> None, endDate |-> None,
     minAmount |-> None, maxAmount |-> None, account |-> None, limit |-> None]

\* if (v) on a string that may be undefined or null
givenString(v) == Len(v) = 1 /\ truthy(v[1])

\* if (v) on a number that may be undefined
givenNumber(v) == Len(v) = 1 /\ v[1] # 0

\* v !== undefined
defined(v) == Len(v) = 1

\* Array.prototype.slice(0, end)
slice(arr, end) ==
    LET len == Len(arr)
        k   == IF end < 0 THEN (IF len + end < 0 THEN 0 ELSE len + end)
               ELSE (IF end > len THEN len ELSE end)
    IN  SubSeq(arr, 1, k)

\* as resolveTransactions, but an empty cached array counts as no cache
resolveTransactions_EmptyIsAbsent(f, mock, userId) ==
    LET cached == IF truthy(userId) THEN getCachedTransactions(f, userId) ELSE None
    IN  IF Len(cached) = 1 /\ cached[1].transactions # <<>> THEN cached[1].transactions ELSE mock

\* storage.js:160-167: the cached array of a user who has one, else the canned array
resolveTransactions(f, mock, userId) ==
    LET cached == IF truthy(userId) THEN getCachedTransactions(f, userId) ELSE None
    IN  IF Len(cached) = 1 THEN cached[1].transactions ELSE mock

\* as filterCategory, but a value that is no category is not filtered by
filterCategory_UnknownIgnored(transactions, filters) ==
    IF givenString(filters.category) /\ toLowerCase(filters.category[1]) \in CATEGORIES
    THEN SelectSeq(transactions, LAMBDA t : t.category = toLowerCase(filters.category[1]))
    ELSE transactions

\* as filterCategory, but the given value is compared as it was typed
filterCategory_CaseSensitive(transactions, filters) ==
    IF givenString(filters.category)
    THEN SelectSeq(transactions, LAMBDA t : t.category = filters.category[1])
    ELSE transactions

\* storage.js:169-171
filterCategory(transactions, filters) ==
    IF givenString(filters.category)
    THEN LET given == toLowerCase(filters.category[1])
         IN  SelectSeq(transactions, LAMBDA t : t.category = given)
    ELSE transactions

\* storage.js:172-175
filterMerchant(transactions, filters) ==
    IF givenString(filters.merchant)
    THEN LET search == toLowerCase(filters.merchant[1])
         IN  SelectSeq(transactions, LAMBDA t : includes(toLowerCase(t.merchant), search))
    ELSE transactions

\* storage.js:176-178
filterStartDate(transactions, filters) ==
    IF givenString(filters.startDate)
    THEN SelectSeq(transactions, LAMBDA t : strLeq(filters.startDate[1], t.date))
    ELSE transactions

\* storage.js:179-181
filterEndDate(transactions, filters) ==
    IF givenString(filters.endDate)
    THEN SelectSeq(transactions, LAMBDA t : strLeq(t.date, filters.endDate[1]))
    ELSE transactions

\* as filterMinAmount, but the bound is tested with if (filters.minAmount)
filterMinAmount_Truthy(transactions, filters) ==
    IF givenNumber(filters.minAmount)
    THEN SelectSeq(transactions, LAMBDA t : t.amount >= filters.minAmount[1])
    ELSE transactions

\* storage.js:182-184
filterMinAmount(transactions, filters) ==
    IF defined(filters.minAmount)
    THEN SelectSeq(transactions, LAMBDA t : t.amount >= filters.minAmount[1])
    ELSE transactions

\* storage.js:185-187
filterMaxAmount(transactions, filters) ==
    IF defined(filters.maxAmount)
    THEN SelectSeq(transactions, LAMBDA t : t.amount <= filters.maxAmount[1])
    ELSE transactions

\* storage.js:188-191
filterAccount(transactions, filters) ==
    IF givenString(filters.account)
    THEN LET search == toLowerCase(filters.account[1])
         IN  SelectSeq(transactions, LAMBDA t : includes(toLowerCase(t.account), search))
    ELSE transactions

\* as applyFilters, but the criteria are an else-if chain: a given category
\* keeps the later criteria from being looked at
applyFilters_ElseIf(transactions, filters) ==
    IF givenString(filters.category)
    THEN filterCategory(transactions, filters)
    ELSE filterAccount(
           filterMaxAmount(
             filterMinAmount(
               filterEndDate(
                 filterStartDate(
                   filterMerchant(transactions, filters), filters), filters), filters),
             filters), filters)

\* storage.js:169-191, in the order of the code
applyFilters(transactions, filters) ==
    filterAccount(
      filterMaxAmount(
        filterMinAmount(
          filterEndDate(
            filterStartDate(
              filterMerchant(
                filterCategory(transactions, filters), filters), filters), filters), filters),
        filters), filters)

\* localeCompare on the dates that transactions carry, worked out once
TransactionDates ==
    {CannedTransactions[i].date : i \in DOMAIN CannedTransactions}
        \cup {t.date : t \in BankTransactions}
LocaleCompareOfDates ==
    [a \in TransactionDates |-> [b \in TransactionDates |-> localeCompare(a, b)]]

\* the comparator of storage.js:193
compareByDateDesc(a, b) ==
    IF a.date \in TransactionDates /\ b.date \in TransactionDates
    THEN LocaleCompareOfDates[b.date][a.date]
    ELSE localeCompare(b.date, a.date)

\* as insertSorted, but x goes in front of the elements that compare equal to it
insertSorted_Unstable(sorted, x) ==
    LET k == Cardinality({i \in 1..Len(sorted) : compareByDateDesc(sorted[i], x) < 0})
    IN  SubSeq(sorted, 1, k) \o <<x>> \o SubSeq(sorted, k + 1, Len(sorted))

\* x put into an array already in comparator order, behind every element that
\* does not have to come after it
insertSorted(sorted, x) ==
    LET k == Cardinality({i \in 1..Len(sorted) : compareByDateDesc(sorted[i], x) <= 0})
    IN  SubSeq(sorted, 1, k) \o <<x>> \o SubSeq(sorted, k + 1, Len(sorted))

RECURSIVE stableSort(_)
\* Array.prototype.sort with that comparator: a stable sort
stableSort(transactions) ==
    IF transactions = <<>> THEN <<>>
    ELSE insertSorted(stableSort(SubSeq(transactions, 1, Len(transactions) - 1)),
                      transactions[Len(transactions)])

\* the canned array sorted, worked out once
CannedSorted == stableSort(CannedTransactions)

\* storage.js:193
sortByDateDesc(transactions) ==
    IF transactions = CannedTransactions THEN CannedSorted ELSE stableSort(transactions)

\* storage.js:195-197
applyLimit(transactions, filters) ==
    IF givenNumber(filters.limit) THEN slice(transactions, filters.limit[1]) ELSE transactions

getTransactions(f, mock, userId, filters) ==
    applyLimit(sortByDateDesc(applyFilters(resolveTransactions(f, mock, userId), filters)),
               filters)

\* as mockAfterGetTransactions, but without the spread: when no cache is found
\* and no criterion makes filter() build a new array, line 193 sorts the canned
\* array itself
mockAfterGetTransactions_InPlace(f, mock, userId, filters) ==
    LET cached == IF truthy(userId) THEN getCachedTransactions(f, userId) ELSE None
    IN  IF Len(cached) = 0 /\ filters = [NoFilters EXCEPT !.limit = filters.limit]
        THEN sortByDateDesc(mock)
        ELSE mock

\* MOCK_TRANSACTIONS after a call of getTransactions: the spread of storage.js:166
\* makes a new array, so the in-place sort of line 193 never reaches the canned one
mockAfterGetTransactions(f, mock, userId, filters) == mock

\* storage.js:202-210
getAccounts(f, mock, userId) ==
    LET connection == IF truthy(userId) THEN getUserConnection(f, userId) ELSE None
    IN  IF Len(connection) = 1 /\ "accounts" \in DOMAIN connection[1]
        THEN connection[1].accounts
        ELSE mock

\* the loop of storage.js:221-228
RECURSIVE summarize(_, _)
summarize(transactions, summary) ==
    IF transactions = <<>> THEN summary
    ELSE LET t     == Head(transactions)
             entry == IF t.category \in DOMAIN summary THEN summary[t.category]
                      ELSE [total |-> 0, count |-> 0]
         IN  summarize(Tail(transactions),
                       put(summary, t.category,
                           [total |-> entry.total + abs(t.amount), count |-> entry.count + 1]))

\* as filterDateRange, but the start bound is exclusive
filterDateRange_ExclusiveStart(transactions, startDate, endDate) ==
    LET fromStart == IF givenString(startDate)
                     THEN SelectSeq(transactions, LAMBDA t : strLess(startDate[1], t.date))
                     ELSE transactions
    IN  IF givenString(endDate)
        THEN SelectSeq(fromStart, LAMBDA t : strLeq(t.date, endDate[1]))
        ELSE fromStart

\* if (startDate) ...; if (endDate) ... of storage.js:218-219 and 251-252
filterDateRange(transactions, startDate, endDate) ==
    LET fromStart == IF givenString(startDate)
                     THEN SelectSeq(transactions, LAMBDA t : strLeq(startDate[1], t.date))
                     ELSE transactions
    IN  IF givenString(endDate)
        THEN SelectSeq(fromStart, LAMBDA t : strLeq(t.date, endDate[1]))
        ELSE fromStart

\* as spendingEligible, but every outflow counts, whatever its category
spendingEligible_AnyCategory(t) == t.amount < 0

\* the predicate of storage.js:214-216
spendingEligible(t) == t.amount < 0 /\ t.category # "income" /\ t.category # "transfer"

getSpendingSummary(f, mock, userId, startDate, endDate) ==
    LET allTransactions == getTransactions(f, mock, userId, NoFilters)
        transactions    == filterDateRange(SelectSeq(allTransactions, spendingEligible),
                                           startDate, endDate)
    IN  summarize(transactions, EmptyObject)

RECURSIVE sumBalances(_)
\* reduce((sum, a) => sum + (a.balance || 0), 0)
sumBalances(accounts) ==
    IF accounts = <<>> THEN 0 ELSE Head(accounts).balance + sumBalances(Tail(accounts))

\* as getTotalBalance, but every account that is not a credit account counts as cash
getTotalBalance_AllButCredit(f, mock, userId) ==
    LET accounts == getAccounts(f, mock, userId)
        checking == sumBalances(SelectSeq(accounts, LAMBDA a : a.type # "credit"))
        credit   == sumBalances(SelectSeq(accounts, LAMBDA a : a.type = "credit"))
    IN  [checking |-> checking, creditOwed |-> abs(credit), netWorth |-> checking + credit]

\* storage.js:233-246
getTotalBalance(f, mock, userId) ==
    LET accounts == getAccounts(f, mock, userId)
        checking == sumBalances(SelectSeq(accounts,
                        LAMBDA a : a.type = "checking" \/ a.type = "depository"))
        credit   == sumBalances(SelectSeq(accounts, LAMBDA a : a.type = "credit"))
    IN  [checking |-> checking, creditOwed |-> abs(credit), netWorth |-> checking + credit]

RECURSIVE sumAbsAmounts(_)
\* reduce((sum, t) => sum + Math.abs(t.amount), 0)
sumAbsAmounts(transactions) ==
    IF transactions = <<>> THEN 0
    ELSE abs(Head(transactions).amount) + sumAbsAmounts(Tail(transactions))

\* as incomeEligible, but only what is both of category income and an inflow
incomeEligible_InflowsOfIncome(t) == t.category = "income" /\ t.amount > 0

\* the predicate of storage.js:249
incomeEligible(t) == t.category = "income" \/ t.amount > 0

getIncomeSummary(f, mock, userId, startDate, endDate) ==
    LET transactions == filterDateRange(
                            SelectSeq(getTransactions(f, mock, userId, NoFilters), incomeEligible),
                            startDate, endDate)
    IN  [total |-> sumAbsAmounts(transactions), count |-> Len(transactions),
         transactions |-> transactions]

getCategorySpending(f, mock, userId, category) ==
    LET given        == toLowerCase(category)
        transactions == SelectSeq(getTransactions(f, mock, userId, NoFilters),
                            LAMBDA t : t.category = given /\ t.amount < 0)
    IN  [total |-> sumAbsAmounts(transactions), count |-> Len(transactions),
         transactions |-> transactions]

-----------------------------------------------------------------------------
(* The handlers.  A handler runs to its next await in one step; the bank's *)
(* answer to each await is an input of the step that resumes the handler.  *)

\* the access token and the item the bank issues to the i-th handler invocation:
\* every exchange makes a new pair
accessTokenOf(i) == <<"access", i>>
itemOf(i) == <<"item", i>>

\* new Date().toISOString(): the clock, which has advanced whenever a handler starts
now == Len(requests)

\* what accountsGet may answer
BankAccountLists == {
    << PlaidAccount("chk-1", "Everyday", "depository", "checking", 120000, 110000, "Everyday Checking"),
       PlaidAccount("card-9", "Rewards", "credit", "credit card", -45000, 0, "") >>,
    << PlaidAccount("chk-1", "Everyday", "depository", "checking", 95000, 95000, "Everyday Checking"),
       PlaidAccount("brk-3", "Brokerage", "investment", "brokerage", 700000, 0, "") >> }

\* what transactionsGet may answer to a handler of Spec
BankStatements == {<<>>, <<BankHold, BankSalary, BankGroceries>>}

NoQuery == [op |-> "none"]

Request(kind, userId, pc) ==
    [kind |-> kind, userId |-> userId, pc |-> pc,
     connection |-> None, accessToken |-> <<>>, itemId |-> <<>>,
     accounts |-> <<>>, transactions |-> <<>>]

\* a handler that has answered: its locals are gone
Finished == Request("", "", "done")

NoResponse == [kind |-> "", userId |-> "", text |-> ""]

\* what handler invocation r answers
Answer(r, text) == [kind |-> r.kind, userId |-> r.userId, text |-> text]

\* app.post('/api/exchange') up to await exchangePublicToken
StartLink(userId) ==
    /\ Len(requests) < MaxRequests
    /\ requests' = Append(requests, Request("link", userId, "exchange"))
    /\ UNCHANGED <<file, MOCK_TRANSACTIONS, MOCK_ACCOUNTS, response, query, appended>>

\* exchangePublicToken answers; up to await getAccounts
LinkExchanged(i) ==
    /\ i \in DOMAIN requests
    /\ requests[i].kind = "link" /\ requests[i].pc = "exchange"
    /\ requests' = [requests EXCEPT ![i].accessToken = accessTokenOf(i),
                                    ![i].itemId = itemOf(i),
                                    ![i].pc = "accounts"]
    /\ UNCHANGED <<file, MOCK_TRANSACTIONS, MOCK_ACCOUNTS, response, query, appended>>

\* getAccounts answers; saveUserConnection; up to await getTransactions
LinkAccountsFetched(i, answer) ==
    /\ i \in DOMAIN requests
    /\ requests[i].kind = "link" /\ requests[i].pc = "accounts"
    /\ LET r        == requests[i]
           accounts == plaidGetAccounts(answer)
       IN  /\ file' = saveUserConnection(file, r.userId,
                          [accessToken |-> r.accessToken, itemId |-> r.itemId,
                           accounts |-> accounts, connectedAt |-> now])
           /\ requests' = [requests EXCEPT ![i].accounts = accounts, ![i].pc = "transactions"]
    /\ UNCHANGED <<MOCK_TRANSACTIONS, MOCK_ACCOUNTS, response, query, appended>>

\* getTransactions answers; cacheTransactions; up to await sendTelegramNotification
LinkTransactionsFetched(i, answer) ==
    /\ i \in DOMAIN requests
    /\ requests[i].kind = "link" /\ requests[i].pc = "transactions"
    /\ LET r            == requests[i]
           transactions == plaidGetTransactions(answer)
       IN  /\ file' = cacheTransactions(file, r.userId, transactions, now)
           /\ requests' = [requests EXCEPT ![i].transactions = transactions, ![i].pc = "notify"]
    /\ UNCHANGED <<MOCK_TRANSACTIONS, MOCK_ACCOUNTS, response, query, appended>>

\* sendTelegramNotification returns (it catches its own errors); res.json success
LinkResponds(i) ==
    /\ i \in DOMAIN requests
    /\ requests[i].kind = "link" /\ requests[i].pc = "notify"
    /\ requests' = [requests EXCEPT ![i] = Finished]
    /\ response' = Answer(requests[i], "success: true")
    /\ UNCHANGED <<file, MOCK_TRANSACTIONS, MOCK_ACCOUNTS, query, appended>>

\* one of the three bank calls throws; the catch block answers status 500
LinkFails(i) ==
    /\ i \in DOMAIN requests
    /\ requests[i].kind = "link" /\ requests[i].pc \in {"exchange", "accounts", "transactions"}
    /\ requests' = [requests EXCEPT ![i] = Finished]
    /\ response' = Answer(requests[i], "success: false")
    /\ UNCHANGED <<file, MOCK_TRANSACTIONS, MOCK_ACCOUNTS, query, appended>>

SyncKinds == {"sync command", "sync tool"}

\* bot.onText(/\/sync/) and the sync_transactions tool up to await getTransactions,
\* or to the answer when no connection is stored
StartSync(kind, userId) ==
    /\ Len(requests) < MaxRequests
    /\ LET connection == getUserConnection(file, userId)
       IN  IF Len(connection) = 0
           THEN /\ requests' = Append(requests, Finished)
                /\ response' = Answer(Request(kind, userId, "done"), "No bank connected")
           ELSE /\ requests' = Append(requests,
                        [Request(kind, userId, "transactions") EXCEPT !.connection = connection])
                /\ UNCHANGED response
    /\ UNCHANGED <<file, MOCK_TRANSACTIONS, MOCK_ACCOUNTS, query, appended>>

\* as SyncTransactionsFetched, but the transactions are cached as soon as they
\* have come, before the accounts are asked for
SyncTransactionsFetched_CachesAtOnce(i, answer) ==
    /\ i \in DOMAIN requests
    /\ requests[i].kind \in SyncKinds /\ requests[i].pc = "transactions"
    /\ file' = cacheTransactions(file, requests[i].userId, plaidGetTransactions(answer), now)
    /\ requests' = [requests EXCEPT ![i].transactions = plaidGetTransactions(answer),
                                    ![i].pc = "accounts"]
    /\ UNCHANGED <<MOCK_TRANSACTIONS, MOCK_ACCOUNTS, response, query, appended>>

\* getTransactions answers; up to await getAccounts
SyncTransactionsFetched(i, answer) ==
    /\ i \in DOMAIN requests
    /\ requests[i].kind \in SyncKinds /\ requests[i].pc = "transactions"
    /\ requests' = [requests EXCEPT ![i].transactions = plaidGetTransactions(answer),
                                    ![i].pc = "accounts"]
    /\ UNCHANGED <<file, MOCK_TRANSACTIONS, MOCK_ACCOUNTS, response, query, appended>>

\* { ...connection, accounts }
withAccounts(connection, accounts) == put(connection, "accounts", accounts)

\* getAccounts answers; cacheTransactions; saveUserConnection; the answer
SyncAccountsFetched(i, answer) ==
    /\ i \in DOMAIN requests
    /\ requests[i].kind \in SyncKinds /\ requests[i].pc = "accounts"
    /\ LET r        == requests[i]
           accounts == plaidGetAccounts(answer)
       IN  file' = saveUserConnection(
                       cacheTransactions(file, r.userId, r.transactions, now),
                       r.userId, withAccounts(r.connection[1], accounts))
    /\ requests' = [requests EXCEPT ![i] = Finished]
    /\ response' = Answer(requests[i], "Synced")
    /\ UNCHANGED <<MOCK_TRANSACTIONS, MOCK_ACCOUNTS, query, appended>>

\* one of the two bank calls throws; the catch block answers
SyncFails(i) ==
    /\ i \in DOMAIN requests
    /\ requests[i].kind \in SyncKinds /\ requests[i].pc \in {"transactions", "accounts"}
    /\ requests' = [requests EXCEPT ![i] = Finished]
    /\ response' = Answer(requests[i], "Sync failed")
    /\ UNCHANGED <<file, MOCK_TRANSACTIONS, MOCK_ACCOUNTS, query, appended>>

-----------------------------------------------------------------------------
(* tools.js: the tools that pass model-issued arguments to the store *)

DEFAULT_LIMIT == 10

\* tools.js:125-134; args.limit is the number the schema yields (10 when omitted)
searchTransactionsTool(f, mock, userId, args) ==
    getTransactions(f, mock, userId,
        [category |-> args.category, merchant |-> args.merchant,
         startDate |-> args.start_date, endDate |-> args.end_date,
         minAmount |-> args.min_amount, maxAmount |-> args.max_amount,
         account |-> None,
         limit |-> Some(IF args.limit # 0 THEN args.limit ELSE DEFAULT_LIMIT)])

\* tools.js:196-197; args.limit is the number the schema yields (10 when omitted)
getRecentTransactionsTool(f, mock, userId, args) ==
    getTransactions(f, mock, userId,
        [NoFilters EXCEPT !.limit = Some(IF args.limit # 0 THEN args.limit ELSE DEFAULT_LIMIT)])

\* the schema of tools.js:193-195 applied to what the model sent
recentArgs(limit) == [limit |-> IF Len(limit) = 1 THEN limit[1] ELSE DEFAULT_LIMIT]

\* the schema of tools.js:116-124 applied to what the model sent: limit defaults to 10
toolArgs(category, merchant, start_date, end_date, min_amount, max_amount, limit) ==
    [category |-> category, merchant |-> merchant, start_date |-> start_date,
     end_date |-> end_date, min_amount |-> min_amount, max_amount |-> max_amount,
     limit |-> IF Len(limit) = 1 THEN limit[1] ELSE DEFAULT_LIMIT]

-----------------------------------------------------------------------------
(* The query operations as steps.  They are synchronous: a call runs from  *)
(* its first line to its return with nothing in between, and query holds  *)
(* the call and its result until the caller has taken it.                  *)

Call(op, userId, filters, startDate, endDate, category, result) ==
    [op |-> op, userId |-> userId, filters |-> filters, startDate |-> startDate,
     endDate |-> endDate, category |-> category, result |-> result]

CallGetTransactions(userId, filters) ==
    /\ query = NoQuery
    /\ query' = Call("getTransactions", userId, filters, None, None, "",
                     getTransactions(file, MOCK_TRANSACTIONS, userId, filters))
    /\ MOCK_TRANSACTIONS' = mockAfterGetTransactions(file, MOCK_TRANSACTIONS, userId, filters)
    /\ UNCHANGED <<file, MOCK_ACCOUNTS, requests, response, appended>>

CallGetAccounts(userId) ==
    /\ query = NoQuery
    /\ query' = Call("getAccounts", userId, NoFilters, None, None, "",
                     getAccounts(file, MOCK_ACCOUNTS, userId))
    /\ UNCHANGED <<file, MOCK_TRANSACTIONS, MOCK_ACCOUNTS, requests, response, appended>>

CallGetSpendingSummary(userId, startDate, endDate) ==
    /\ query = NoQuery
    /\ query' = Call("getSpendingSummary", userId, NoFilters, startDate, endDate, "",
                     getSpendingSummary(file, MOCK_TRANSACTIONS, userId, startDate, endDate))
    /\ MOCK_TRANSACTIONS' = mockAfterGetTransactions(file, MOCK_TRANSACTIONS, userId, NoFilters)
    /\ UNCHANGED <<file, MOCK_ACCOUNTS, requests, response, appended>>

CallGetTotalBalance(userId) ==
    /\ query = NoQuery
    /\ query' = Call("getTotalBalance", userId, NoFilters, None, None, "",
                     getTotalBalance(file, MOCK_ACCOUNTS, userId))
    /\ UNCHANGED <<file, MOCK_TRANSACTIONS, MOCK_ACCOUNTS, requests, response, appended>>

CallGetIncomeSummary(userId, startDate, endDate) ==
    /\ query = NoQuery
    /\ query' = Call("getIncomeSummary", userId, NoFilters, startDate, endDate, "",
                     getIncomeSummary(file, MOCK_TRANSACTIONS, userId, startDate, endDate))
    /\ MOCK_TRANSACTIONS' = mockAfterGetTransactions(file, MOCK_TRANSACTIONS, userId, NoFilters)
    /\ UNCHANGED <<file, MOCK_ACCOUNTS, requests, response, appended>>

CallGetCategorySpending(userId, category) ==
    /\ query = NoQuery
    /\ query' = Call("getCategorySpending", userId, NoFilters, None, None, category,
                     getCategorySpending(file, MOCK_TRANSACTIONS, userId, category))
    /\ MOCK_TRANSACTIONS' = mockAfterGetTransactions(file, MOCK_TRANSACTIONS, userId, NoFilters)
    /\ UNCHANGED <<file, MOCK_ACCOUNTS, requests, response, appended>>

\* the search_transactions tool of the server made for userId
CallSearchTransactions(userId, args) ==
    /\ query = NoQuery
    /\ query' = Call("search_transactions", userId,
                     [category |-> args.category, merchant |-> args.merchant,
                      startDate |-> args.start_date, endDate |-> args.end_date,
                      minAmount |-> args.min_amount, maxAmount |-> args.max_amount,
                      account |-> None, limit |-> Some(args.limit)],
                     None, None, "",
                     searchTransactionsTool(file, MOCK_TRANSACTIONS, userId, args))
    /\ MOCK_TRANSACTIONS' = mockAfterGetTransactions(file, MOCK_TRANSACTIONS, userId, NoFilters)
    /\ UNCHANGED <<file, MOCK_ACCOUNTS, requests, response, appended>>

\* the get_recent_transactions tool of the server made for userId; limit is what
\* the model sent
CallGetRecentTransactions(userId, limit) ==
    /\ query = NoQuery
    /\ query' = Call("get_recent_transactions", userId,
                     [NoFilters EXCEPT !.limit = limit], None, None, "",
                     getRecentTransactionsTool(file, MOCK_TRANSACTIONS, userId,
                                               recentArgs(limit)))
    /\ MOCK_TRANSACTIONS' = mockAfterGetTransactions(file, MOCK_TRANSACTIONS, userId, NoFilters)
    /\ UNCHANGED <<file, MOCK_ACCOUNTS, requests, response, appended>>

\* the caller takes the result
ReturnResult ==
    /\ query # NoQuery
    /\ query' = NoQuery
    /\ UNCHANGED <<file, MOCK_TRANSACTIONS, MOCK_ACCOUNTS, requests, response, appended>>

-----------------------------------------------------------------------------
(* Spec: the handlers of the server and of the bot *)

\* a userId argument: a Telegram id, or the default null
UserArgs == Users \cup {NULL}

Init ==
    /\ file = <<>>
    /\ MOCK_TRANSACTIONS = CannedTransactions
    /\ MOCK_ACCOUNTS = CannedAccounts
    /\ requests = <<>>
    /\ response = NoResponse
    /\ query = NoQuery
    /\ appended = NoneAppended

Next ==
    \/ \E u \in Users : StartLink(u)
    \/ \E i \in 1..MaxRequests : LinkExchanged(i)
    \/ \E i \in 1..MaxRequests, r \in BankAccountLists : LinkAccountsFetched(i, r)
    \/ \E i \in 1..MaxRequests, r \in BankStatements : LinkTransactionsFetched(i, r)
    \/ \E i \in 1..MaxRequests : LinkResponds(i)
    \/ \E i \in 1..MaxRequests : LinkFails(i)
    \/ \E k \in SyncKinds, u \in Users : StartSync(k, u)
    \/ \E i \in 1..MaxRequests, r \in BankStatements : SyncTransactionsFetched(i, r)
    \/ \E i \in 1..MaxRequests, r \in BankAccountLists : SyncAccountsFetched(i, r)
    \/ \E i \in 1..MaxRequests : SyncFails(i)

Spec == Init /\ [][Next]_vars

-----------------------------------------------------------------------------
(* SpecQuery: the query operations over every store a link can leave *)

\* the file after user u1 has linked a bank holding statement and has had one chat turn
LinkedFile(statement) ==
    LET linked == saveUserConnection(<<>>, "u1",
                      [accessToken |-> accessTokenOf(1), itemId |-> itemOf(1),
                       accounts |-> plaidGetAccounts(CHOOSE r \in BankAccountLists :
                                                       r[2].type = "credit"),
                       connectedAt |-> 1])
        cached == cacheTransactions(linked, "u1", plaidGetTransactions(statement), 1)
    IN  appendChatHistory(appendChatHistory(cached, "u1", "user", "What did I spend?", 1),
                          "u1", "assistant", "I processed your request.", 1)

InitQuery ==
    /\ file \in {<<>>} \cup {LinkedFile(st) : st \in SeqsUpTo(BankTransactions, MaxTxns)}
    /\ MOCK_TRANSACTIONS = CannedTransactions
    /\ MOCK_ACCOUNTS = CannedAccounts
    /\ requests = <<>>
    /\ response = NoResponse
    /\ query = NoQuery
    /\ appended = NoneAppended

\* the criteria a caller may pass to getTransactions
FilterSpace ==
    {f \in [category  : {None, Some("Groceries"), Some("income"), Some("crypto")},
            merchant  : {None, Some("UBER")},
            startDate : {None, Some("2026-02-03")},
            endDate   : {None, Some("2026-02-05")},
            minAmount : {None, Some(0), Some(-1250)},
            maxAmount : {None, Some(0)},
            account   : {None, Some("Ch")},
            limit     : {None, Some(0), Some(1), Some(2)}] :
        f.limit = None \/ (f.merchant = None /\ f.account = None /\ f.startDate = None
                           /\ f.endDate = None /\ f.maxAmount = None)}

\* the date bounds a caller may pass to the summaries
SummaryDates == {None, Some("2026-01-22"), Some("2026-02-03"), Some("2026-02-1"), Some("")}

\* the category a caller may pass to getCategorySpending
CategoryInputs == {"groceries", "Groceries", "INCOME", "Other", "crypto"}

\* what the model may send to search_transactions
ToolArgSpace ==
    {toolArgs(c, None, None, None, mn, None, l) :
        c \in {None, Some("income")}, mn \in {None, Some(0)}, l \in {None, Some(0), Some(2)}}

\* the limit the model may send to get_recent_transactions
RecentLimits == {None, Some(0), Some(3)}

NextQuery ==
    \/ \E f \in FilterSpace : CallGetTransactions("u1", f)
    \/ \E u \in UserArgs : CallGetTransactions(u, NoFilters)
    \/ \E u \in UserArgs : CallGetAccounts(u)
    \/ \E u \in {"u1", NULL}, sd \in SummaryDates, ed \in SummaryDates :
          CallGetSpendingSummary(u, sd, ed)
    \/ \E u \in UserArgs : CallGetTotalBalance(u)
    \/ \E u \in {"u1", NULL}, sd \in SummaryDates, ed \in SummaryDates :
          CallGetIncomeSummary(u, sd, ed)
    \/ \E u \in UserArgs, c \in CategoryInputs : CallGetCategorySpending(u, c)
    \/ \E u \in {"u1"}, a \in ToolArgSpace : CallSearchTransactions(u, a)
    \/ \E u \in {"u1"}, l \in RecentLimits : CallGetRecentTransactions(u, l)
    \/ ReturnResult

SpecQuery == InitQuery /\ [][NextQuery]_vars

-----------------------------------------------------------------------------
(* What the claims are stated with *)

\* how often x occurs in the sequence q
occurrences(q, x) == Cardinality({i \in DOMAIN q : q[i] = x})

\* the two sequences hold the same elements, each as often
SameElements(a, b) ==
    /\ Len(a) = Len(b)
    /\ \A x \in Range(a) \cup Range(b) : occurrences(a, x) = occurrences(b, x)

\* the transaction cache entry stored for u in the file, read off the file itself
StoredCache(u) ==
    IF Len(file) = 1 /\ u \in DOMAIN file[1].transactionCache
    THEN Some(file[1].transactionCache[u].transactions)
    ELSE None

-----------------------------------------------------------------------------
(* C1 *)

\* C1: in every state the handlers can reach, getTransactions(userId) without
\* filters returns exactly the cached transactions when userId is given and a
\* cache entry is stored for it, and exactly the 20 canned transactions otherwise.
C1_ResolutionPolicy ==
    \A u \in UserArgs :
        \A result \in {getTransactions(file, MOCK_TRANSACTIONS, u, NoFilters)} :
            IF u \in Users /\ Len(StoredCache(u)) = 1
            THEN SameElements(result, StoredCache(u)[1])
            ELSE Len(result) = 20 /\ SameElements(result, CannedTransactions)

\* one user reads a stored empty cache, the other a stored non-empty one
C1_Witness ==
    /\ Len(StoredCache("u1")) = 1 /\ StoredCache("u1")[1] = <<>>
    /\ Len(StoredCache("u2")) = 1 /\ Len(StoredCache("u2")[1]) = 3
    /\ getTransactions(file, MOCK_TRANSACTIONS, "u1", NoFilters) = <<>>
    /\ Len(getTransactions(file, MOCK_TRANSACTIONS, "u2", NoFilters)) = 3

-----------------------------------------------------------------------------
(* C2 *)

\* C2: in the state right after a handler has called cacheTransactions(u, T),
\* the unfiltered getTransactions(u) returns the elements of T and no others,
\* whatever was cached for u before.
C2_RoundTrip ==
    [][\A i \in DOMAIN requests :
          LET u     == requests[i].userId
              after == getTransactions(file', MOCK_TRANSACTIONS', u, NoFilters)
          IN  /\ (requests[i].kind = "link" /\ requests[i].pc = "transactions"
                    /\ requests'[i].pc = "notify")
                 => SameElements(after, requests'[i].transactions)
              /\ (requests[i].kind \in SyncKinds /\ requests[i].pc = "accounts"
                    /\ requests'[i].pc = "done" /\ response'.text = "Synced")
                 => SameElements(after, requests[i].transactions)]_vars

\* a sync has just written an empty set over the three transactions cached for
\* the user before
C2_Witness ==
    /\ response.kind \in SyncKinds /\ response.text = "Synced"
    /\ StoredCache(response.userId) = Some(<<>>)
    /\ \E i \in DOMAIN requests :
          /\ requests[i].kind = "link" /\ requests[i].pc = "notify"
          /\ requests[i].userId = response.userId
          /\ Len(requests[i].transactions) = 3

-----------------------------------------------------------------------------
(* Helpers of the claims about the query operations *)

\* the array a query for u starts from
Resolved(u) == resolveTransactions(file, MOCK_TRANSACTIONS, u)

\* the place of x in arr
indexOf(arr, x) == CHOOSE i \in DOMAIN arr : arr[i] = x /\ \A j \in 1..(i - 1) : arr[j] # x

\* the criteria getTransactions filters by
Criteria == {"category", "merchant", "startDate", "endDate", "minAmount", "maxAmount", "account"}

\* filters with criterion k alone
only(filters, k) == [NoFilters EXCEPT ![k] = filters[k]]

\* the two strings are equal when letter case is ignored
sameIgnoringCase(a, b) == toUpperCase(a) = toUpperCase(b)

outflowsOnly(transactions) == SelectSeq(transactions, LAMBDA t : t.amount < 0)

RECURSIVE sumAbsAt(_, _)
\* the sum of the absolute amounts of the transactions at the places I
sumAbsAt(transactions, I) ==
    IF I = {} THEN 0
    ELSE LET i == CHOOSE i \in I : TRUE
         IN  abs(transactions[i].amount) + sumAbsAt(transactions, I \ {i})

RECURSIVE sumTotals(_, _)
\* the sum of the totals a summary holds under the keys K
sumTotals(summary, K) ==
    IF K = {} THEN 0
    ELSE LET c == CHOOSE c \in K : TRUE
         IN  summary[c].total + sumTotals(summary, K \ {c})

\* date lies within the bounds that were passed; null, undefined and "" pass none
withinBounds(date, startDate, endDate) ==
    /\ givenString(startDate) => strLeq(startDate[1], date)
    /\ givenString(endDate) => strLeq(date, endDate[1])

CannedInflows == {"txn_003", "txn_012", "txn_018"}

-----------------------------------------------------------------------------
(* C3 *)

\* C3: a call of a query operation (getTransactions, getAccounts,
\* getSpendingSummary, getTotalBalance, getIncomeSummary, getCategorySpending,
\* or the search tool on top of them) leaves the data file (connections,
\* transaction caches, chat histories) and the canned transaction and account
\* arrays as they were, content and order.
C3_QueriesChangeNothing ==
    [][(query.op = "none" /\ query'.op # "none") =>
          /\ file' = file
          /\ MOCK_TRANSACTIONS' = MOCK_TRANSACTIONS
          /\ MOCK_ACCOUNTS' = MOCK_ACCOUNTS]_vars

\* getTransactions has returned the 20 canned transactions in another order than
\* the canned array's, which is still as it was written
C3_Witness ==
    /\ query.op = "getTransactions"
    /\ file = <<>>
    /\ Len(query.result) = 20
    /\ query.result # CannedTransactions
    /\ MOCK_TRANSACTIONS = CannedTransactions
    /\ MOCK_ACCOUNTS = CannedAccounts

-----------------------------------------------------------------------------
(* C4 *)

\* C4: the transactions getTransactions returns for several criteria together
\* are those that it returns for each of the criteria alone.
C4_ConjunctiveIndependence ==
    (query.op = "getTransactions" /\ query.filters.limit = None) =>
        LET alone == [k \in Criteria |->
                         Range(getTransactions(file, MOCK_TRANSACTIONS, query.userId,
                                               only(query.filters, k)))]
        IN  Range(query.result) =
                {t \in Range(Resolved(query.userId)) : \A k \in Criteria : t \in alone[k]}

\* a call with two criteria or more whose result is not empty and is smaller than
\* the result of each of its criteria alone
C4_Witness ==
    /\ query.op = "getTransactions"
    /\ query.filters.limit = None
    /\ query.result # <<>>
    /\ Cardinality({k \in Criteria : query.filters[k] # None}) >= 2
    /\ \A k \in Criteria :
          query.filters[k] # None =>
              Len(getTransactions(file, MOCK_TRANSACTIONS, query.userId,
                                  only(query.filters, k))) > Len(query.result)

-----------------------------------------------------------------------------
(* C5 *)

\* C5: the result of getTransactions is in date order, latest first, and two
\* transactions of the same date are in the order the stored array has them in.
C5_DateDescendingStable ==
    query.op \in {"getTransactions", "search_transactions"} =>
        LET stored == Resolved(query.userId)
            result == query.result
        IN  \A i, j \in DOMAIN result :
                i < j =>
                    /\ strLeq(result[j].date, result[i].date)
                    /\ result[i].date = result[j].date =>
                           indexOf(stored, result[i]) < indexOf(stored, result[j])

\* a result with two transactions of one date, and with two transactions that the
\* sort has put the other way round
C5_Witness ==
    /\ query.op = "getTransactions"
    /\ \E i, j \in DOMAIN query.result :
          i < j /\ query.result[i].date = query.result[j].date
    /\ \E i, j \in DOMAIN query.result :
          /\ i < j
          /\ indexOf(Resolved(query.userId), query.result[i])
                 > indexOf(Resolved(query.userId), query.result[j])

-----------------------------------------------------------------------------
(* C6 *)

\* C6: with limit N on a filtered result of M >= N transactions, getTransactions
\* returns N transactions, the first N of the date-descending result.
C6_LimitKeepsFirstN ==
    (query.op = "getTransactions" /\ query.filters.limit # None) =>
        LET N       == query.filters.limit[1]
            sorted  == getTransactions(file, MOCK_TRANSACTIONS, query.userId,
                                       [query.filters EXCEPT !.limit = None])
        IN  (0 <= N /\ N <= Len(sorted)) =>
                /\ Len(query.result) = N
                /\ query.result = SubSeq(sorted, 1, N)

-----------------------------------------------------------------------------
(* C7 *)

\* C7: getTransactions keeps a transaction iff minAmount <= amount (when
\* minAmount is passed, 0 included) and amount <= maxAmount (when maxAmount is
\* passed, 0 included); on the canned data minAmount = 0 gives the two income
\* deposits and the transfer, through getTransactions and through the
\* search_transactions tool.
C7_AmountBounds ==
    /\ (query.op = "getTransactions" /\ query.filters.limit = None) =>
          LET f      == query.filters
              others == getTransactions(file, MOCK_TRANSACTIONS, query.userId,
                            [f EXCEPT !.minAmount = None, !.maxAmount = None])
          IN  Range(query.result) =
                  {t \in Range(others) :
                      /\ f.minAmount # None => f.minAmount[1] <= t.amount
                      /\ f.maxAmount # None => t.amount <= f.maxAmount[1]}
    /\ (/\ query.op \in {"getTransactions", "search_transactions"}
        /\ file = <<>>
        /\ query.filters = [NoFilters EXCEPT !.minAmount = Some(0),
                                             !.limit = query.filters.limit]) =>
          /\ {t.id : t \in Range(query.result)} \subseteq CannedInflows
          /\ \A t \in Range(query.result) : t.amount > 0
          /\ query.filters.limit \in {None, Some(0), Some(DEFAULT_LIMIT)} =>
                 {t.id : t \in Range(query.result)} = CannedInflows

\* minAmount = 0 alone on the canned data has given the three inflows
C7_Witness ==
    /\ query.op = "getTransactions"
    /\ file = <<>>
    /\ query.filters = [NoFilters EXCEPT !.minAmount = Some(0)]
    /\ {t.id : t \in Range(query.result)} = CannedInflows

-----------------------------------------------------------------------------
(* C8 *)

\* C8: the category criterion of getTransactions and the category of
\* getCategorySpending match a transaction iff its category is the given one with
\* letter case ignored.
C8_CategoryIgnoresCase ==
    /\ (/\ query.op = "getTransactions"
        /\ givenString(query.filters.category)
        /\ query.filters.limit = None) =>
          LET others == getTransactions(file, MOCK_TRANSACTIONS, query.userId,
                            [query.filters EXCEPT !.category = None])
          IN  Range(query.result) =
                  {t \in Range(others) :
                      sameIgnoringCase(t.category, query.filters.category[1])}
    /\ query.op = "getCategorySpending" =>
          Range(query.result.transactions) =
              {t \in Range(Resolved(query.userId)) :
                  t.amount < 0 /\ sameIgnoringCase(t.category, query.category)}

\* the category "Groceries" alone has matched transactions, stored as "groceries"
C8_Witness ==
    /\ query.op = "getTransactions"
    /\ query.filters = [NoFilters EXCEPT !.category = Some("Groceries")]
    /\ query.result # <<>>
    /\ \A t \in Range(query.result) : t.category = "groceries"

-----------------------------------------------------------------------------
(* C9 *)

\* C9: the mapping getSpendingSummary returns has no key income and no key
\* transfer, and it is the mapping the transactions of negative amount give by
\* themselves: one of amount >= 0 adds to no total and to no count.
C9_SpendingOnly ==
    query.op = "getSpendingSummary" =>
        /\ "income" \notin DOMAIN query.result
        /\ "transfer" \notin DOMAIN query.result
        /\ query.result = getSpendingSummary(<<>>, outflowsOnly(Resolved(query.userId)),
                                             NULL, query.startDate, query.endDate)

\* a summary with a key, of transactions among which are an outflow of category
\* income or transfer and one of amount >= 0, all within the dates passed
C9_Witness ==
    /\ query.op = "getSpendingSummary"
    /\ DOMAIN query.result # {}
    /\ \E t \in Range(Resolved(query.userId)) :
          /\ t.amount < 0 /\ t.category \in {"income", "transfer"}
          /\ withinBounds(t.date, query.startDate, query.endDate)
    /\ \E t \in Range(Resolved(query.userId)) :
          /\ t.amount >= 0
          /\ withinBounds(t.date, query.startDate, query.endDate)

-----------------------------------------------------------------------------
(* C10 *)

\* C10: with the eligible transactions being those of amount < 0, of a category
\* other than income and transfer, and of a date within the bounds passed (both
\* inclusive), the keys of getSpendingSummary's result are the categories of the
\* eligible transactions, a key's count is the number of them and its total the
\* sum of their absolute amounts; the totals add up to the sum over all of them.
C10_ReferenceGrouping ==
    query.op = "getSpendingSummary" =>
        LET stored   == Resolved(query.userId)
            result   == query.result
            eligible == {i \in DOMAIN stored :
                            /\ stored[i].amount < 0
                            /\ stored[i].category \notin {"income", "transfer"}
                            /\ withinBounds(stored[i].date, query.startDate, query.endDate)}
            in(c)    == {i \in eligible : stored[i].category = c}
        IN  /\ DOMAIN result = {stored[i].category : i \in eligible}
            /\ \A c \in DOMAIN result :
                  /\ result[c].count = Cardinality(in(c))
                  /\ result[c].total = sumAbsAt(stored, in(c))
            /\ sumTotals(result, DOMAIN result) = sumAbsAt(stored, eligible)

\* a summary from a start date on, with two keys, one of them counting two
C10_Witness ==
    /\ query.op = "getSpendingSummary"
    /\ query.startDate = Some("2026-01-22")
    /\ Cardinality(DOMAIN query.result) >= 2
    /\ \E c \in DOMAIN query.result : query.result[c].count >= 2

-----------------------------------------------------------------------------
(* C11 *)

\* C11: getIncomeSummary selects the transactions of the resolved array that are
\* of category income or of amount > 0 and of a date within the bounds passed,
\* whatever their sign or category otherwise; count is their number and total
\* the sum of their absolute amounts.
C11_IncomeSelection ==
    query.op = "getIncomeSummary" =>
        LET stored   == Resolved(query.userId)
            result   == query.result
            eligible == {i \in DOMAIN stored :
                            /\ stored[i].category = "income" \/ stored[i].amount > 0
                            /\ withinBounds(stored[i].date, query.startDate, query.endDate)}
        IN  /\ Len(result.transactions) = Cardinality(eligible)
            /\ Range(result.transactions) = {stored[i] : i \in eligible}
            /\ result.count = Cardinality(eligible)
            /\ result.total = sumAbsAt(stored, eligible)

\* an income summary that counts a transaction of category income and of
\* negative amount, and leaves out one of amount 0
C11_Witness ==
    /\ query.op = "getIncomeSummary"
    /\ \E t \in Range(query.result.transactions) : t.category = "income" /\ t.amount < 0
    /\ \E t \in Range(query.result.transactions) : t.category = "income" /\ t.amount > 0
    /\ \E t \in Range(Resolved(query.userId)) :
          /\ t.amount = 0
          /\ withinBounds(t.date, query.startDate, query.endDate)
          /\ t \notin Range(query.result.transactions)

-----------------------------------------------------------------------------
(* SpecBalance: getAccounts and getTotalBalance over the account lists a   *)
(* link can store                                                          *)

\* the accounts the bank may report for an item: a checking account, a card with
\* an amount owed (the bank reports it as a positive balance), a card in credit,
\* a brokerage account and a loan
BankAccounts == {
    PlaidAccount("chk-1", "Everyday", "depository", "checking", 120000, 110000, "Everyday Checking"),
    PlaidAccount("card-9", "Rewards", "credit", "credit card", 45000, 0, ""),
    PlaidAccount("card-7", "Store Card", "credit", "credit card", -2000, 0, ""),
    PlaidAccount("brk-3", "Brokerage", "investment", "brokerage", 700000, 0, ""),
    PlaidAccount("loan-5", "Car Loan", "loan", "auto", 1500000, 0, "") }

\* the file after user u1 has linked a bank that reports the accounts answer and
\* no transaction
LinkedAccountsFile(answer) ==
    cacheTransactions(
        saveUserConnection(<<>>, "u1",
            [accessToken |-> accessTokenOf(1), itemId |-> itemOf(1),
             accounts |-> plaidGetAccounts(answer), connectedAt |-> 1]),
        "u1", <<>>, 1)

InitBalance ==
    /\ file \in {<<>>} \cup {LinkedAccountsFile(a) : a \in SeqsUpTo(BankAccounts, MaxAccounts)}
    /\ MOCK_TRANSACTIONS = CannedTransactions
    /\ MOCK_ACCOUNTS = CannedAccounts
    /\ requests = <<>>
    /\ response = NoResponse
    /\ query = NoQuery
    /\ appended = NoneAppended

NextBalance ==
    \/ \E u \in UserArgs : CallGetAccounts(u)
    \/ \E u \in UserArgs : CallGetTotalBalance(u)
    \/ ReturnResult

SpecBalance == InitBalance /\ [][NextBalance]_vars

\* the account list a balance query for u starts from
ResolvedAccounts(u) == getAccounts(file, MOCK_ACCOUNTS, u)

\* getTotalBalance of a list of accounts
balanceOf(accounts) == getTotalBalance(<<>>, accounts, NULL)

\* the accounts one may think of adding to a list
AddedAccounts ==
    {Account("new", "Added", type, balance, "Bank") :
        type \in {"checking", "credit", "investment"}, balance \in {-10000, 0, 30000}}

RECURSIVE sumBalanceAt(_, _)
\* the sum of the balances of the accounts at the places I
sumBalanceAt(accounts, I) ==
    IF I = {} THEN 0
    ELSE LET i == CHOOSE i \in I : TRUE
         IN  accounts[i].balance + sumBalanceAt(accounts, I \ {i})

-----------------------------------------------------------------------------
(* C12 *)

\* C12: for any account list, one more account of type checking and balance B
\* makes checking and netWorth greater by B; one more account of type credit and
\* balance -B (B >= 0) makes creditOwed greater by B and netWorth smaller by B.
C12_Additive ==
    query.op = "getTotalBalance" =>
        LET accounts == ResolvedAccounts(query.userId)
            before   == query.result
        IN  \A a \in AddedAccounts :
                LET after == balanceOf(Append(accounts, a))
                IN  /\ a.type = "checking" =>
                          /\ after.checking = before.checking + a.balance
                          /\ after.netWorth = before.netWorth + a.balance
                    /\ (a.type = "credit" /\ a.balance <= 0) =>
                          /\ after.creditOwed = before.creditOwed + (-a.balance)
                          /\ after.netWorth = before.netWorth - (-a.balance)

-----------------------------------------------------------------------------
(* C13 *)

\* C13: netWorth is the sum of the balances of the checking and depository
\* accounts plus the sum of the balances of the credit accounts, and accounts of
\* another type, in the list, taken out of it or added to it, change none of
\* checking, creditOwed and netWorth.
C13_OtherTypesExcluded ==
    query.op = "getTotalBalance" =>
        LET accounts == ResolvedAccounts(query.userId)
            result   == query.result
            cash     == {i \in DOMAIN accounts : accounts[i].type \in {"checking", "depository"}}
            cards    == {i \in DOMAIN accounts : accounts[i].type = "credit"}
        IN  /\ result.netWorth = sumBalanceAt(accounts, cash) + sumBalanceAt(accounts, cards)
            /\ result = balanceOf(SelectSeq(accounts,
                            LAMBDA a : a.type \in {"checking", "depository", "credit"}))
            /\ \A a \in AddedAccounts :
                  a.type \notin {"checking", "depository", "credit"} =>
                      balanceOf(Append(accounts, a)) = result

\* the balance of a stored list with a depository account, a credit account and
\* a brokerage account
C13_Witness ==
    /\ query.op = "getTotalBalance"
    /\ {a.type : a \in Range(ResolvedAccounts(query.userId))}
           = {"depository", "credit", "investment"}
    /\ query.result.netWorth # 0

-----------------------------------------------------------------------------
(* C14 *)

\* what a summary of nothing is
NothingFound == [total |-> 0, count |-> 0, transactions |-> <<>>]

\* C14: on any resolved array, an empty cached one included, getCategorySpending
\* for a category no transaction has and getIncomeSummary with no eligible
\* transaction return total 0, count 0 and no transaction, getSpendingSummary with
\* no eligible transaction returns the empty mapping, and getTransactions for a
\* value that is no category returns the empty array: each returns a value.
C14_NothingFoundIsNoError ==
    /\ (/\ query.op = "getCategorySpending"
        /\ \A t \in Range(Resolved(query.userId)) :
              ~sameIgnoringCase(t.category, query.category)) =>
          query.result = NothingFound
    /\ (/\ query.op = "getIncomeSummary"
        /\ \A t \in Range(Resolved(query.userId)) :
              ~(/\ t.category = "income" \/ t.amount > 0
                /\ withinBounds(t.date, query.startDate, query.endDate))) =>
          query.result = NothingFound
    /\ (/\ query.op = "getSpendingSummary"
        /\ \A t \in Range(Resolved(query.userId)) :
              ~(/\ t.amount < 0 /\ t.category \notin {"income", "transfer"}
                /\ withinBounds(t.date, query.startDate, query.endDate))) =>
          query.result = EmptyObject
    /\ (/\ query.op = "getTransactions"
        /\ givenString(query.filters.category)
        /\ \A c \in CATEGORIES : ~sameIgnoringCase(c, query.filters.category[1])) =>
          query.result = <<>>

\* getCategorySpending for "crypto" on the empty array cached for a user
C14_Witness ==
    /\ query.op = "getCategorySpending"
    /\ query.category = "crypto"
    /\ StoredCache(query.userId) = Some(<<>>)
    /\ query.result = NothingFound

-----------------------------------------------------------------------------
(* C15 *)

\* C15: a sync (the /sync command or the sync_transactions tool) whose fetch of
\* the transactions or of the accounts fails writes nothing: none of its steps up
\* to the failure changes the file, so the user's cache and connection record are
\* what they were before it, and what it answers is "Sync failed".
C15_FailedSyncWritesNothing ==
    [][\A i \in DOMAIN requests :
          (requests[i].kind \in SyncKinds /\ requests'[i] # requests[i]) =>
              \/ file' = file /\ requests'[i] # Finished
              \/ /\ file' = file
                 /\ requests'[i] = Finished
                 /\ response' = Answer(requests[i], "Sync failed")
              \/ /\ requests[i].pc = "accounts"
                 /\ requests'[i] = Finished
                 /\ response' = Answer(requests[i], "Synced")]_vars

\* a sync has just answered "Sync failed" and the three transactions cached for
\* its user, with the connection record, are in the file
C15_Witness ==
    /\ response.kind \in SyncKinds /\ response.text = "Sync failed"
    /\ StoredCache(response.userId) # None
    /\ Len(StoredCache(response.userId)[1]) = 3
    /\ hasPlaidConnection(file, response.userId)

-----------------------------------------------------------------------------
(* C16 *)

\* the users whose stored connection record was written by the link request i
\* (each link request gets an access token of its own; a sync keeps the token)
connectedBy(f, i) ==
    {u \in Users : /\ hasPlaidConnection(f, u)
                   /\ getUserConnection(f, u)[1].accessToken = accessTokenOf(i)}

\* C16: when POST /api/exchange answers success: false, the request has created
\* or changed no connection record; when it answers success: true, a connection
\* record and a transaction cache are stored for its user.
C16_ConnectionOnlyOnSuccess ==
    [][\A i \in DOMAIN requests :
          (requests[i].kind = "link" /\ requests'[i] = Finished) =>
              /\ response'.text = "success: false" => connectedBy(file', i) = {}
              /\ response'.text = "success: true" =>
                    /\ hasPlaidConnection(file', requests[i].userId)
                    /\ Len(getCachedTransactions(file', requests[i].userId)) = 1]_vars

-----------------------------------------------------------------------------
(* C17 *)

\* obj with the key u alone
onlyKey(obj, u) == [k \in (DOMAIN obj) \cap {u} |-> obj[k]]

\* the file with the connection record and the cache entry of user u alone
onlyUser(f, u) ==
    IF Len(f) = 0 THEN f
    ELSE Some([connections      |-> onlyKey(f[1].connections, u),
               transactionCache |-> onlyKey(f[1].transactionCache, u)])

\* what the six query operations return for user u on the file f
queryResults(f, u) ==
    << getTransactions(f, MOCK_TRANSACTIONS, u, NoFilters),
       getAccounts(f, MOCK_ACCOUNTS, u),
       getTotalBalance(f, MOCK_ACCOUNTS, u),
       getSpendingSummary(f, MOCK_TRANSACTIONS, u, None, None),
       getIncomeSummary(f, MOCK_TRANSACTIONS, u, None, None),
       getCategorySpending(f, MOCK_TRANSACTIONS, u, "groceries") >>

\* the connection record and the cache entry stored for user u
entriesOf(f, u) ==
    IF Len(f) = 0 THEN <<None, None>>
    ELSE <<get(f[1].connections, u), get(f[1].transactionCache, u)>>

\* every handler started has answered
quiescent == \A i \in DOMAIN requests : requests[i] = Finished

\* C17: what the query operations return for a user A is decided by A's cache
\* entry and A's connection record alone: it is what they return on a file that
\* holds nothing but these two, so it is the same in any two stores that agree on
\* them, and a chat message of another user B changes none of it; and A's two
\* entries change in no step but a step of a link or a sync of A.  (The results
\* depend on the file alone, and every file a handler writes is still there when
\* all handlers have answered, a failure or the answer being a step that writes
\* nothing: the results are compared in these states.)
C17_PerUserScoping ==
    /\ [](quiescent =>
            \A A \in Users :
                \A results \in {queryResults(file, A)} :
                    /\ results = queryResults(onlyUser(file, A), A)
                    /\ \A B \in Users \ {A} :
                          results = queryResults(
                                        appendChatHistory(file, B, "user", "hello", now), A))
    /\ [][\A A \in Users :
             entriesOf(file', A) # entriesOf(file, A) =>
                 \E i \in DOMAIN requests :
                     requests[i].userId = A /\ requests'[i] # requests[i]]_vars

\* u1 has a cache of three transactions, u2 one of none, and their query results
\* differ
C17_Witness ==
    /\ quiescent
    /\ StoredCache("u1") # None /\ StoredCache("u2") = Some(<<>>)
    /\ Len(StoredCache("u1")[1]) = 3
    /\ queryResults(file, "u1") # queryResults(file, "u2")

-----------------------------------------------------------------------------
(* C18 *)

\* C18: get_recent_transactions and search_transactions with limit N return the
\* min(N, M) latest of the M matching transactions, in date-descending order,
\* and with no limit sent they take N = 10.
C18_ToolsHonourLimit ==
    query.op \in {"get_recent_transactions", "search_transactions"} =>
        LET N        == IF query.filters.limit = None THEN DEFAULT_LIMIT
                        ELSE query.filters.limit[1]
            matching == getTransactions(file, MOCK_TRANSACTIONS, query.userId,
                                        [query.filters EXCEPT !.limit = None])
            M        == Len(matching)
        IN  N >= 0 => query.result = SubSeq(matching, 1, IF N < M THEN N ELSE M)

-----------------------------------------------------------------------------
(* SpecChat: the bot's message and /clear handlers over the chat histories *)
(* that earlier turns can leave *)

MaxMessages == 3

\* what query() may yield as the result of its success message (agent.js:84-86)
AgentResults == {"", "You spent $42.50 on groceries."}

\* agent.js:100
DEFAULT_REPLY == "I processed your request."

\* the text of the message handler invocation i was started for
userMessageOf(i) == "message " \o ToString(i)

\* the two messages a successful processMessage appends (agent.js:99-101)
turn(userMessage, result, at) ==
    << [role |-> "user", content |-> userMessage, timestamp |-> at],
       [role |-> "assistant",
        content |-> IF result # "" THEN result ELSE DEFAULT_REPLY,
        timestamp |-> at] >>

\* the file after the two appends of agent.js:99-101
appendTurn(f, userId, userMessage, result, at) ==
    LET messages == turn(userMessage, result, at)
    IN  appendChatHistory(
            appendChatHistory(f, userId, messages[1].role, messages[1].content, at),
            userId, messages[2].role, messages[2].content, at)

\* the text of the j-th turn u1 had before the bot's handlers of SpecChat start
earlierMessageOf(j) == "earlier message " \o ToString(j)

\* the file after the further successful turns first..last of userId
RECURSIVE afterTurns(_, _, _, _)
afterTurns(f, userId, first, last) ==
    IF last < first THEN f
    ELSE appendTurn(afterTurns(f, userId, first, last - 1), userId,
                    earlierMessageOf(last), "", 0)

\* the messages those turns appended
RECURSIVE turnsAppended(_, _)
turnsAppended(first, last) ==
    IF last < first THEN <<>>
    ELSE turnsAppended(first, last - 1) \o turn(earlierMessageOf(last), "", 0)

\* u1 has linked a bank and has had one chat turn
OneTurnFile == LinkedFile(<<BankSalary>>)

\* ... and five more: 12 messages
HalfFilledFile == afterTurns(OneTurnFile, "u1", 1, 5)

\* ... and four more: 20 messages, as many as the history holds
FilledFile == afterTurns(HalfFilledFile, "u1", 6, 9)

\* ... and two more: 24 messages, more than fit
OverfilledFile == afterTurns(FilledFile, "u1", 10, 11)

\* the files SpecChat starts from, each with the number of turns that followed
\* the first
EarlierChats ==
    { [file |-> OneTurnFile, turns |-> 0],
      [file |-> FilledFile, turns |-> 9],
      [file |-> OverfilledFile, turns |-> 11] }

InitChat ==
    /\ \E earlier \in EarlierChats :
          /\ file = earlier.file
          /\ appended = [u \in Users |->
                            IF u = "u1"
                            THEN getChatHistory(OneTurnFile, "u1")
                                     \o turnsAppended(1, earlier.turns)
                            ELSE <<>>]
    /\ MOCK_TRANSACTIONS = CannedTransactions
    /\ MOCK_ACCOUNTS = CannedAccounts
    /\ requests = <<>>
    /\ response = NoResponse
    /\ query = NoQuery

\* bot.on('message') up to the await of query() in processMessage
StartMessage(userId) ==
    /\ Len(requests) < MaxMessages
    /\ requests' = Append(requests, Request("message", userId, "query"))
    /\ UNCHANGED <<file, MOCK_TRANSACTIONS, MOCK_ACCOUNTS, response, query, appended>>

\* query() ends with result; agent.js:99-103 and the answer of the bot
MessageAnswered(i, result) ==
    /\ i \in DOMAIN requests
    /\ requests[i].kind = "message" /\ requests[i].pc = "query"
    /\ LET r == requests[i]
       IN  /\ file' = appendTurn(file, r.userId, userMessageOf(i), result, now)
           /\ appended' = [appended EXCEPT ![r.userId] =
                               @ \o turn(userMessageOf(i), result, now)]
           /\ response' = Answer(r, IF result # "" THEN result ELSE DEFAULT_REPLY)
    /\ requests' = [requests EXCEPT ![i] = Finished]
    /\ UNCHANGED <<MOCK_TRANSACTIONS, MOCK_ACCOUNTS, query>>

\* as MessageFails, but the user message is saved before query() runs
MessageFails_SavesUserMessage(i) ==
    /\ i \in DOMAIN requests
    /\ requests[i].kind = "message" /\ requests[i].pc = "query"
    /\ file' = appendChatHistory(file, requests[i].userId, "user", userMessageOf(i), now)
    /\ appended' = [appended EXCEPT ![requests[i].userId] =
                        Append(@, [role |-> "user", content |-> userMessageOf(i),
                                   timestamp |-> now])]
    /\ response' = Answer(requests[i], "Sorry, I encountered an error")
    /\ requests' = [requests EXCEPT ![i] = Finished]
    /\ UNCHANGED <<MOCK_TRANSACTIONS, MOCK_ACCOUNTS, query>>

\* query() throws; agent.js:105-113 and the answer of the bot
MessageFails(i) ==
    /\ i \in DOMAIN requests
    /\ requests[i].kind = "message" /\ requests[i].pc = "query"
    /\ response' = Answer(requests[i], "Sorry, I encountered an error")
    /\ requests' = [requests EXCEPT ![i] = Finished]
    /\ UNCHANGED <<file, MOCK_TRANSACTIONS, MOCK_ACCOUNTS, query, appended>>

CLEARED == "Conversation history cleared! Starting fresh."

\* bot.onText(/\/clear/).  The handler calls require() inside an ES module:
\* requireBound is whether the runtime binds that name there (Node does not, so
\* the call throws a ReferenceError before anything is cleared or sent)
ClearCommand(userId, requireBound) ==
    /\ Len(requests) < MaxMessages
    /\ IF requireBound
       THEN /\ requests' = Append(requests, Request("clear", userId, "done"))
            /\ file' = clearChatHistory(file, userId)
            /\ appended' = [appended EXCEPT ![userId] = <<>>]
            /\ response' = Answer(Request("clear", userId, "done"), CLEARED)
       ELSE /\ requests' = Append(requests, Request("clear", userId, "threw"))
            /\ UNCHANGED <<file, appended, response>>
    /\ UNCHANGED <<MOCK_TRANSACTIONS, MOCK_ACCOUNTS, query>>

NextChat ==
    \/ \E u \in Users : StartMessage(u)
    \/ \E i \in 1..MaxMessages, result \in AgentResults : MessageAnswered(i, result)
    \/ \E i \in 1..MaxMessages : MessageFails(i)
    \/ \E u \in Users, requireBound \in BOOLEAN : ClearCommand(u, requireBound)

SpecChat == InitChat /\ [][NextChat]_vars

-----------------------------------------------------------------------------
(* C19 *)

\* C19: the chat history is a bounded ordered log of capacity 20 with
\* oldest-first eviction: a user's stored history has at most 20 entries and is,
\* in order, the last min(20, k) of the k messages appended since it was last
\* empty or cleared; and an append for one user changes no other user's history
\* (the other user's history stays the tail of what was appended for that user).
C19_BoundedLog ==
    \A u \in Users :
        LET history == getChatHistory(file, u)
            k       == Len(appended[u])
            kept    == IF k < HISTORY_LIMIT THEN k ELSE HISTORY_LIMIT
        IN  /\ Len(history) <= HISTORY_LIMIT
            /\ history = SubSeq(appended[u], k - kept + 1, k)

\* u1 has been appended more than 20 messages and u2 some, since their histories
\* were last empty
C19_Witness ==
    /\ Len(appended["u1"]) > 20
    /\ Len(getChatHistory(file, "u1")) = HISTORY_LIMIT
    /\ getChatHistory(file, "u1")[HISTORY_LIMIT].content = DEFAULT_REPLY
    /\ getChatHistory(file, "u1")[HISTORY_LIMIT - 1].content = userMessageOf(2)
    /\ Len(getChatHistory(file, "u2")) = 2

-----------------------------------------------------------------------------
(* C20 *)

\* the step is the bot handling a /clear message from userId
handlesClear(userId) ==
    /\ Len(requests') = Len(requests) + 1
    /\ requests'[Len(requests')].kind = "clear"
    /\ requests'[Len(requests')].userId = userId

\* C20: after the bot handles a /clear message from a user, getChatHistory for
\* that user returns the empty sequence, the user has been told the history was
\* cleared, and the user's connection record and transaction cache and every
\* other user's history are as before.
C20_ClearCommandClears ==
    [][\A u \in Users :
         handlesClear(u) =>
             /\ getChatHistory(file', u) = <<>>
             /\ response' = [kind |-> "clear", userId |-> u, text |-> CLEARED]
             /\ entriesOf(file', u) = entriesOf(file, u)
             /\ \A other \in Users \ {u} :
                    getChatHistory(file', other) = getChatHistory(file, other)]_vars

-----------------------------------------------------------------------------
(* C21 *)

\* history is made of whole turns: user, assistant, user, assistant, ...
wholeTurns(history) ==
    /\ Len(history) % 2 = 0
    /\ \A n \in DOMAIN history :
           history[n].role = IF n % 2 = 1 THEN "user" ELSE "assistant"

\* the step ends the processMessage call of handler invocation i
endsMessage(i) ==
    /\ i \in DOMAIN requests
    /\ requests[i].kind = "message" /\ requests[i].pc = "query"
    /\ requests'[i] = Finished

ERROR_REPLY == "Sorry, I encountered an error"

\* C21: under every interleaving of processMessage calls in the bot process each
\* user's stored history has even length and alternates user, assistant, ...; a
\* call whose query throws appends nothing, and a successful call appends exactly
\* its user message followed by the assistant reply, adjacent to each other.
C21_WholeTurns ==
    /\ [](\A u \in Users : wholeTurns(getChatHistory(file, u)))
    /\ [][\A i \in 1..MaxMessages :
             endsMessage(i) =>
                 LET u      == requests[i].userId
                     before == getChatHistory(file, u)
                     after  == getChatHistory(file', u)
                     n      == Len(after)
                 IN  IF response'.text = ERROR_REPLY
                     THEN file' = file
                     ELSE /\ n >= 2
                          /\ after[n - 1].role = "user"
                          /\ after[n - 1].content = userMessageOf(i)
                          /\ after[n].role = "assistant"
                          /\ after[n].content = response'.text
                          /\ SubSeq(after, 1, n - 2)
                                 = sliceLast(before, HISTORY_LIMIT - 2)
                          /\ \A other \in Users \ {u} :
                                 getChatHistory(file', other) = getChatHistory(file, other)]_vars

\* two processMessage calls of u1 overlapped and the later one was answered
\* first, into a history that was full; a call of u2 failed
C21_Witness ==
    /\ Len(requests) = 3
    /\ requests[1] = Finished /\ requests[2] = Finished /\ requests[3] = Finished
    /\ LET history == getChatHistory(file, "u1")
       IN  /\ Len(history) = HISTORY_LIMIT
           /\ Len(appended["u1"]) > HISTORY_LIMIT
           /\ history[HISTORY_LIMIT - 3].content = userMessageOf(2)
           /\ history[HISTORY_LIMIT - 1].content = userMessageOf(1)
    /\ getChatHistory(file, "u2") = <<>>
    /\ response.userId = "u2" /\ response.text = ERROR_REPLY

-----------------------------------------------------------------------------
(* SpecRelink: the handlers of Spec for users of whom u1 has linked a bank *)
(* before *)

\* the file after an earlier link of u1, whose exchange issued the pair 0 at time 0
EarlierLinkFile(accounts, statement) ==
    cacheTransactions(
        saveUserConnection(<<>>, "u1",
            [accessToken |-> accessTokenOf(0), itemId |-> itemOf(0),
             accounts |-> plaidGetAccounts(accounts), connectedAt |-> 0]),
        "u1", plaidGetTransactions(statement), 0)

InitRelink ==
    /\ file \in {EarlierLinkFile(a, st) : a \in BankAccountLists, st \in BankStatements}
    /\ MOCK_TRANSACTIONS = CannedTransactions
    /\ MOCK_ACCOUNTS = CannedAccounts
    /\ requests = <<>>
    /\ response = NoResponse
    /\ query = NoQuery
    /\ appended = NoneAppended

SpecRelink == InitRelink /\ [][Next]_vars

-----------------------------------------------------------------------------
(* C22 *)

\* the step is the write and the answer of the successful sync i
syncWrites(i) ==
    /\ i \in DOMAIN requests
    /\ requests[i].kind \in SyncKinds /\ requests[i].pc = "accounts"
    /\ requests'[i] = Finished
    /\ response'.text = "Synced"

\* C22: a sync changes only the account list of the connection: after a
\* successful /sync command or sync_transactions call the stored accessToken,
\* itemId and connectedAt are those stored immediately before the sync wrote,
\* also when a link or another sync has stored a connection for the user while
\* the sync was awaiting the bank.
C22_SyncKeepsCredentials ==
    [][\A i \in 1..MaxRequests :
         syncWrites(i) =>
             LET before == getUserConnection(file, requests[i].userId)
                 after  == getUserConnection(file', requests[i].userId)
             IN  /\ Len(before) = 1 /\ Len(after) = 1
                 /\ after[1].accessToken = before[1].accessToken
                 /\ after[1].itemId = before[1].itemId
                 /\ after[1].connectedAt = before[1].connectedAt]_vars

-----------------------------------------------------------------------------
(* C23 *)

\* getAccounts(u) returns the account list of u's stored connection
\* (storage.js:205), not the canned accounts
realAccounts(u) ==
    /\ Len(getUserConnection(file, u)) = 1
    /\ "accounts" \in DOMAIN getUserConnection(file, u)[1]
    /\ getAccounts(file, MOCK_ACCOUNTS, u) = getUserConnection(file, u)[1].accounts

\* getTransactions(u) starts from u's cached array (storage.js:163), not from
\* the canned transactions
realTransactions(u) ==
    /\ Len(getCachedTransactions(file, u)) = 1
    /\ resolveTransactions(file, MOCK_TRANSACTIONS, u)
           = getCachedTransactions(file, u)[1].transactions

\* C23: in every state that link and sync requests reach, failed ones included,
\* getAccounts(u) returns the connection's real account list iff
\* getTransactions(u) returns a cached real transaction set.
C23_SourcesConsistent ==
    \A u \in Users : realAccounts(u) <=> realTransactions(u)

-----------------------------------------------------------------------------
(* SpecShared: the bot process and the web-server process writing to the   *)
(* one data file.  Every storage write reads the whole file               *)
(* (loadConnections, readFileSync), changes the object it has parsed and   *)
(* writes the whole file (saveConnections, writeFileSync).  A process runs *)
(* one write at a time, but the other process may read and write between   *)
(* the two system calls.                                                   *)

MaxWrites == 3

Processes == {"bot", "server"}

\* the storage writes each process makes: the server the two of a link
\* (part_001:188, 197), the bot those of a sync (part_002:88-89, tools.js:253-254)
\* and of a chat turn (agent.js:99-101)
WritesOf(process) ==
    IF process = "server" THEN {"saveUserConnection", "cacheTransactions"}
    ELSE {"saveUserConnection", "cacheTransactions", "appendChatHistory"}

\* a storage write of process that has read the file and found loaded in it
StorageCall(process, op, userId, loaded) ==
    [kind |-> op, userId |-> userId, pc |-> "loaded", process |-> process, loaded |-> loaded]

\* what the write call hands to saveConnections; at is the clock and i the
\* number of the call
writtenBy(call, i, at) ==
    IF call.kind = "saveUserConnection"
    THEN saveUserConnection(call.loaded, call.userId,
             [accessToken |-> accessTokenOf(i), itemId |-> itemOf(i),
              accounts |-> <<>>, connectedAt |-> at])
    ELSE IF call.kind = "cacheTransactions"
    THEN cacheTransactions(call.loaded, call.userId, plaidGetTransactions(<<BankSalary>>), at)
    ELSE appendChatHistory(call.loaded, call.userId, "user", userMessageOf(i), at)

\* the process is between the read and the write of a storage call
writing(process) ==
    \E i \in DOMAIN requests : requests[i].pc = "loaded" /\ requests[i].process = process

\* loadConnections() of a storage write of process
LoadForWrite(process, op, userId) ==
    /\ Len(requests) < MaxWrites
    /\ ~writing(process)
    /\ op \in WritesOf(process)
    /\ requests' = Append(requests, StorageCall(process, op, userId, file))
    /\ UNCHANGED <<file, MOCK_TRANSACTIONS, MOCK_ACCOUNTS, response, query, appended>>

\* the change of the parsed object and saveConnections(data) of storage write i
SaveWrite(i) ==
    /\ i \in DOMAIN requests
    /\ requests[i].pc = "loaded"
    /\ file' = writtenBy(requests[i], i, now)
    /\ appended' = IF requests[i].kind = "appendChatHistory"
                   THEN [appended EXCEPT ![requests[i].userId] =
                            Append(@, [role |-> "user", content |-> userMessageOf(i),
                                       timestamp |-> now])]
                   ELSE appended
    /\ requests' = [requests EXCEPT ![i] = Finished]
    /\ UNCHANGED <<MOCK_TRANSACTIONS, MOCK_ACCOUNTS, response, query>>

NextShared ==
    \/ \E p \in Processes, op \in WritesOf("bot"), u \in Users : LoadForWrite(p, op, u)
    \/ \E i \in 1..MaxWrites : SaveWrite(i)

SpecShared == Init /\ [][NextShared]_vars

-----------------------------------------------------------------------------
(* C24 *)

\* C24: stored records are never lost: with the two processes sharing the data
\* file and every storage write a load-whole-file, modify, save-whole-file
\* sequence, a connection record or transaction cache that has been saved for a
\* user is present in every later state, under any interleaving of the
\* processes' load and save steps.
C24_RecordsNeverLost ==
    [][\A u \in Users :
         /\ Len(getUserConnection(file, u)) = 1 => Len(getUserConnection(file', u)) = 1
         /\ Len(getCachedTransactions(file, u)) = 1
                => Len(getCachedTransactions(file', u)) = 1]_vars

====
